---- MODULE Spec2Model ----
(***************************************************************************)
(* The layer orchestrator of ccs: Elicit.apply_to_layer and                *)
(* Elicit.create_models_dir of src/ccs/training/train.py.                  *)
(*                                                                         *)
(* One layer job is one invocation of apply_to_layer(layer, ...).  Its     *)
(* local variables, its position in the function body and the calls it    *)
(* has made on its collaborators (reporter, fitter, supervised trainer,    *)
(* file system) are the fields of job[layer].  The Elicit object (self) is *)
(* cfg, and the paths that exist under out_dir are fs.                     *)
(*                                                                         *)
(* Tensors are represented by what the orchestrator reads of them: their   *)
(* shape (n, v, k, d) and, for credences, predictions and metrics, by the  *)
(* term that produced them (which predictor was called on which bundle).   *)
(***************************************************************************)
EXTENDS Integers, Sequences, FiniteSets, TLC

VARIABLES cfg, job, fs, unit

vars == <<cfg, job, fs, unit>>

(***************************************************************************)
(* Bounds of the model.                                                    *)
(***************************************************************************)
MaxDatasets == 2
MaxLrModels == 2
MaxVariants == 2
MaxLayer == 1

Layers == 0..MaxLayer
Seeds == {0, 1}
VariantCounts == 1..MaxVariants
ClassCounts == {2, 3}
HiddenSizes == {4, 8}

(***************************************************************************)
(* Elicit: the fields of the run that apply_to_layer reads.  net.kind is   *)
(* the class of self.net: CcsConfig, EigenFitterConfig, or a FitterConfig  *)
(* that is neither.                                                        *)
(***************************************************************************)
NetKinds == {"ccs", "eigen", "other"}
SupervisedModes == {"none", "single", "inlp", "cv"}

Elicit == [net : [kind : NetKinds, seed : Seeds],
           supervised : SupervisedModes,
           save_logprobs : BOOLEAN]

(***************************************************************************)
(* The ensembling modes, in the order of the loop at line 162, and the     *)
(* names of the result tables.                                             *)
(***************************************************************************)
Modes == <<"none", "partial", "full">>

Tables == {"eval", "train_eval", "lm_eval", "train_lm_eval", "lr_eval", "train_lr_eval"}

(***************************************************************************)
(* Hidden-state bundles as prepare_data returns them: hiddens is the shape *)
(* (n, v, k, d) of the tensor, lm_preds is whether language-model          *)
(* predictions are present (not None).  A dataset is named by its position *)
(* in train_dict; val_dict has the same keys.                              *)
(***************************************************************************)
Bundle(shape, lm) == [hiddens |-> shape, lm_preds |-> lm]

SeqsUpTo(S, m) == UNION {[1..i -> S] : i \in 0..m}

(***************************************************************************)
(* The inputs prepare_data is drawn from: up to MaxDatasets datasets, each *)
(* with a train and a val bundle whose tensors have the same shape.        *)
(* ShapeCases varies the class count and the hidden size independently per *)
(* dataset, VariantCases the variant count, and LmCases the presence of    *)
(* language-model predictions per dataset and split.                       *)
(***************************************************************************)
Dataset(shape, train_lm, val_lm) ==
    [train |-> Bundle(shape, train_lm), val |-> Bundle(shape, val_lm)]

ShapeDatasets == {Dataset(<<2, 2, k, d>>, TRUE, TRUE) : k \in ClassCounts, d \in HiddenSizes}

VariantDatasets == {Dataset(<<2, v, 2, 4>>, TRUE, TRUE) : v \in VariantCounts}

LmDatasets == {Dataset(<<2, 1, 2, 4>>, a, b) : a, b \in BOOLEAN}

ShapeCases == SeqsUpTo(ShapeDatasets, MaxDatasets)
VariantCases == SeqsUpTo(VariantDatasets, MaxDatasets)
LmCases == SeqsUpTo(LmDatasets, MaxDatasets)

DataInputs == ShapeCases \cup VariantCases \cup LmCases

(***************************************************************************)
(* Paths under out_dir.                                                    *)
(***************************************************************************)
LrDir == "lr_models"
ReporterDir == "reporters"
CfgPath == ReporterDir \o "/cfg.yaml"
LayerFileWithoutIndex(layer) == "layer.pt"

LayerFile(layer) == "layer_" \o ToString(layer) \o ".pt"
ReporterPath(layer) == ReporterDir \o "/" \o LayerFile(layer)
LrPath(layer) == LrDir \o "/" \o LayerFile(layer)

(***************************************************************************)
(* Terms for the values the collaborators return.                          *)
(***************************************************************************)
Labels(ds, split) == [ds |-> ds, split |-> split]
Credences(by, idx, ds, split) == [by |-> by, idx |-> idx, ds |-> ds, split |-> split]
EvaluatePreds(labels, credences, mode) ==
    [labels |-> labels, preds |-> credences, ensembling |-> mode]
GetLogprobs(credences, mode) == [of |-> credences, ensembling |-> mode]

Ev(op, ds, arg) == [op |-> op, ds |-> ds, arg |-> arg]

(***************************************************************************)
(* The state of a layer job before apply_to_layer starts.  Optional values *)
(* (None or a value) are sequences of length at most one.                  *)
(***************************************************************************)
InitJob ==
    [pc |-> "start", error |-> "", seed |-> <<>>,
     train_dict |-> <<>>, val_dict |-> <<>>,
     v |-> 0, k |-> 0, d |-> 0,
     train_loss |-> <<>>, reporter |-> <<>>, fitter |-> <<>>,
     hidden_list |-> <<>>, label_list |-> <<>>,
     lr_models |-> <<>>, ds |-> 0, mode |-> 0,
     val_credences |-> <<>>, train_credences |-> <<>>,
     row_bufs |-> [t \in Tables |-> <<>>], out_logprobs |-> <<>>,
     result |-> <<>>, log |-> <<>>]

(***************************************************************************)
(* `unit' holds a component of the repository that is exercised on its own *)
(* (an Extract under construction, the calibration arguments of a fit);    *)
(* a layer job never touches it.                                           *)
(***************************************************************************)
NoUnit == [kind |-> "none"]

Init ==
    /\ unit = NoUnit
    /\ cfg \in Elicit
    /\ \E layer \in Layers : job = (layer :> InitJob)
    /\ fs = {}

Raise(J, err) == [J EXCEPT !.pc = "raised", !.error = err]

(***************************************************************************)
(* Line 69: self.make_reproducible(seed=self.net.seed + layer).            *)
(***************************************************************************)
LayerSeedIgnoringLayer(net_seed, layer) == net_seed

LayerSeed(net_seed, layer) == net_seed + layer

MakeReproducible(layer) ==
    LET J == job[layer] IN
    /\ J.pc = "start"
    /\ job' = [job EXCEPT ![layer] =
                  [J EXCEPT !.pc = "prepare",
                            !.seed = <<LayerSeed(cfg.net.seed, layer)>>,
                            !.log = Append(@, Ev("make_reproducible", 0, ""))]]
    /\ UNCHANGED <<cfg, fs>>

(***************************************************************************)
(* Lines 72-73: train_dict and val_dict, both keyed by dataset.            *)
(***************************************************************************)
PrepareDataFrom(layer, inputs) ==
    LET J == job[layer] IN
    /\ J.pc = "prepare"
    /\ \E data \in inputs :
          job' = [job EXCEPT ![layer] =
                     [J EXCEPT !.pc = "validate",
                               !.train_dict = [i \in DOMAIN data |-> data[i].train],
                               !.val_dict = [i \in DOMAIN data |-> data[i].val],
                               !.log = Append(@, Ev("prepare_data", 0, ""))]]
    /\ UNCHANGED <<cfg, fs>>

PrepareData(layer) == PrepareDataFrom(layer, DataInputs)

(***************************************************************************)
(* Lines 75-85: unpack the first train bundle and compare the others'      *)
(* hidden size (shape[-1]) and class count (shape[-2]) with it.            *)
(***************************************************************************)
ClassCountOfLastAxis(shape) == shape[Len(shape)]

HiddenSizeOf(shape) == shape[Len(shape)]

ClassCountOf(shape) == shape[Len(shape) - 1]

SameHiddenSize(train_dict) ==
    \A i \in 2..Len(train_dict) :
        HiddenSizeOf(train_dict[i].hiddens) = HiddenSizeOf(train_dict[1].hiddens)

SameClassCount(train_dict) ==
    \A i \in 2..Len(train_dict) :
        ClassCountOf(train_dict[i].hiddens) = ClassCountOf(train_dict[1].hiddens)

ValidateAfterCreate(layer) ==
    LET J == job[layer]
        made == [J EXCEPT !.log = @ \o <<Ev("mkdir", 0, LrDir),
                                         Ev("mkdir", 0, ReporterDir),
                                         Ev("save", 0, CfgPath)>>]
    IN
    /\ J.pc = "validate"
    /\ Len(J.train_dict) > 0
    /\ fs' = fs \cup {LrDir, ReporterDir, CfgPath}
    /\ job' = [job EXCEPT ![layer] =
          IF ~SameHiddenSize(J.train_dict)
          THEN Raise(made, "ValueError: All datasets must have the same hidden state size")
          ELSE IF ~SameClassCount(J.train_dict)
          THEN Raise(made, "ValueError: All datasets must have the same number of classes")
          ELSE [J EXCEPT !.pc = "create_models_dir",
                         !.v = J.train_dict[1].hiddens[2],
                         !.k = J.train_dict[1].hiddens[3],
                         !.d = J.train_dict[1].hiddens[4]]]
    /\ UNCHANGED cfg

Validate(layer) ==
    LET J == job[layer] IN
    /\ J.pc = "validate"
    /\ job' = [job EXCEPT ![layer] =
          IF Len(J.train_dict) = 0
          THEN Raise(J, "ValueError: not enough values to unpack")
          ELSE LET shape == J.train_dict[1].hiddens
                   J1 == [J EXCEPT !.v = shape[2], !.k = shape[3], !.d = shape[4]]
               IN  IF ~SameHiddenSize(J.train_dict)
                   THEN Raise(J1, "ValueError: All datasets must have the same hidden state size")
                   ELSE IF ~SameClassCount(J.train_dict)
                   THEN Raise(J1, "ValueError: All datasets must have the same number of classes")
                   ELSE [J1 EXCEPT !.pc = "create_models_dir"]]
    /\ UNCHANGED <<cfg, fs>>

(***************************************************************************)
(* Lines 47-59 and 87-88: create_models_dir makes both directories and     *)
(* saves the reporter config; train_loss = None.                           *)
(***************************************************************************)
CreateModelsDir(layer) ==
    LET J == job[layer] IN
    /\ J.pc = "create_models_dir"
    /\ fs' = fs \cup {LrDir, ReporterDir, CfgPath}
    /\ job' = [job EXCEPT ![layer] =
                  [J EXCEPT !.pc = "dispatch",
                            !.train_loss = <<>>,
                            !.log = @ \o <<Ev("mkdir", 0, LrDir),
                                           Ev("mkdir", 0, ReporterDir),
                                           Ev("save", 0, CfgPath)>>]]
    /\ UNCHANGED cfg


(***************************************************************************)
(* Lines 90-96, contrastive branch: the single-task assertion, then the    *)
(* CcsReporter is constructed, fit on the first dataset's hiddens and      *)
(* Platt-scaled on the labels repeated over the variants.                  *)
(***************************************************************************)
NewCcsReporter(d, v) ==
    [cls |-> "CcsReporter", in_features |-> d, num_variants |-> v,
     fitted |-> FALSE, calib |-> <<>>]

FitLoss(ds, seed) == [fit_on |-> ds, seed |-> seed]

DispatchCcsUnchecked(layer) ==
    LET J == job[layer] IN
    /\ J.pc = "dispatch"
    /\ cfg.net.kind = "ccs"
    /\ job' = [job EXCEPT ![layer] =
                  [J EXCEPT !.pc = "ccs_fit",
                            !.reporter = <<NewCcsReporter(J.d, J.v)>>,
                            !.log = Append(@, Ev("CcsReporter", 0, ""))]]
    /\ UNCHANGED <<cfg, fs>>

DispatchCcs(layer) ==
    LET J == job[layer] IN
    /\ J.pc = "dispatch"
    /\ cfg.net.kind = "ccs"
    /\ job' = [job EXCEPT ![layer] =
          IF Len(J.train_dict) # 1
          THEN Raise(J, "AssertionError: CCS only supports single-task training")
          ELSE [J EXCEPT !.pc = "ccs_fit",
                         !.reporter = <<NewCcsReporter(J.d, J.v)>>,
                         !.log = Append(@, Ev("CcsReporter", 0, ""))]]
    /\ UNCHANGED <<cfg, fs>>

CcsFitUncalibrated(layer) ==
    LET J == job[layer] IN
    /\ J.pc = "ccs_fit"
    /\ job' = [job EXCEPT ![layer] =
                  [J EXCEPT !.pc = "save_reporter",
                            !.reporter = <<[J.reporter[1] EXCEPT !.fitted = TRUE]>>,
                            !.train_loss = <<FitLoss(1, J.seed)>>,
                            !.log = Append(@, Ev("fit", 1, ""))]]
    /\ UNCHANGED <<cfg, fs>>

CcsFit(layer) ==
    LET J == job[layer] IN
    /\ J.pc = "ccs_fit"
    /\ job' = [job EXCEPT ![layer] =
                  [J EXCEPT !.pc = "ccs_platt_scale",
                            !.reporter = <<[J.reporter[1] EXCEPT !.fitted = TRUE]>>,
                            !.train_loss = <<FitLoss(1, J.seed)>>,
                            !.log = Append(@, Ev("fit", 1, ""))]]
    /\ UNCHANGED <<cfg, fs>>

CcsPlattArgs(shape, v, k) ==
    [labels |-> <<shape[1], v, k>>, hiddens |-> shape]

CcsPlattScale(layer) ==
    LET J == job[layer]
        first == J.train_dict[1]
    IN
    /\ J.pc = "ccs_platt_scale"
    /\ job' = [job EXCEPT ![layer] =
                  [J EXCEPT !.pc = "save_reporter",
                            !.reporter = <<[J.reporter[1] EXCEPT
                                 !.calib = Append(@, CcsPlattArgs(first.hiddens, J.v, J.k))]>>,
                            !.log = Append(@, Ev("platt_scale", 1, ""))]]
    /\ UNCHANGED <<cfg, fs>>

(***************************************************************************)
(* Lines 98-123, eigen branch: the EigenFitter is constructed, every       *)
(* dataset of train_dict is flattened into hidden_list and label_list and  *)
(* streamed through update, fit_streaming returns the reporter, which is   *)
(* Platt-scaled on the concatenated labels and hiddens.                    *)
(***************************************************************************)
NewEigenFitter(d, k, v) ==
    [in_features |-> d, num_classes |-> k, num_variants |-> v,
     updates |-> <<>>, fit |-> FALSE]

DispatchEigen(layer) ==
    LET J == job[layer] IN
    /\ J.pc = "dispatch"
    /\ cfg.net.kind = "eigen"
    /\ job' = [job EXCEPT ![layer] =
                  [J EXCEPT !.pc = "eigen_update",
                            !.fitter = <<NewEigenFitter(J.d, J.k, J.v)>>,
                            !.hidden_list = <<>>,
                            !.label_list = <<>>,
                            !.ds = 1,
                            !.log = Append(@, Ev("EigenFitter", 0, ""))]]
    /\ UNCHANGED <<cfg, fs>>

FlatHiddens(shape) == <<shape[1] * shape[2] * shape[3], shape[4]>>
FlatLabels(shape, v, k) == <<shape[1] * v * k>>

EigenUpdateFirstVariantCount(layer) ==
    LET J == job[layer]
        shape == J.train_dict[J.ds].hiddens
        v == shape[2]
    IN
    /\ J.pc = "eigen_update"
    /\ J.ds <= Len(J.train_dict)
    /\ job' = [job EXCEPT ![layer] =
                  [J EXCEPT !.v = v,
                            !.hidden_list = Append(@, FlatHiddens(shape)),
                            !.label_list = Append(@, FlatLabels(shape, J.v, J.k)),
                            !.fitter = <<[J.fitter[1] EXCEPT !.updates = Append(@, J.ds)]>>,
                            !.ds = @ + 1,
                            !.log = Append(@, Ev("update", J.ds, ""))]]
    /\ UNCHANGED <<cfg, fs>>

EigenUpdate(layer) ==
    LET J == job[layer]
        shape == J.train_dict[J.ds].hiddens
        v == shape[2]
    IN
    /\ J.pc = "eigen_update"
    /\ J.ds <= Len(J.train_dict)
    /\ job' = [job EXCEPT ![layer] =
                  [J EXCEPT !.v = v,
                            !.hidden_list = Append(@, FlatHiddens(shape)),
                            !.label_list = Append(@, FlatLabels(shape, v, J.k)),
                            !.fitter = <<[J.fitter[1] EXCEPT !.updates = Append(@, J.ds)]>>,
                            !.ds = @ + 1,
                            !.log = Append(@, Ev("update", J.ds, ""))]]
    /\ UNCHANGED <<cfg, fs>>

NewEigenReporter(fitter) ==
    [cls |-> "Reporter", in_features |-> fitter.in_features,
     num_variants |-> fitter.num_variants, fitted |-> TRUE, calib |-> <<>>]

EigenFitStreamingEarly(layer) ==
    LET J == job[layer] IN
    /\ J.pc = "eigen_update"
    /\ J.ds >= Len(J.train_dict)
    /\ job' = [job EXCEPT ![layer] =
                  [J EXCEPT !.pc = "eigen_platt_scale",
                            !.fitter = <<[J.fitter[1] EXCEPT !.fit = TRUE]>>,
                            !.reporter = <<NewEigenReporter(J.fitter[1])>>,
                            !.log = Append(@, Ev("fit_streaming", 0, ""))]]
    /\ UNCHANGED <<cfg, fs>>

EigenFitStreaming(layer) ==
    LET J == job[layer] IN
    /\ J.pc = "eigen_update"
    /\ J.ds > Len(J.train_dict)
    /\ job' = [job EXCEPT ![layer] =
                  [J EXCEPT !.pc = "eigen_platt_scale",
                            !.fitter = <<[J.fitter[1] EXCEPT !.fit = TRUE]>>,
                            !.reporter = <<NewEigenReporter(J.fitter[1])>>,
                            !.log = Append(@, Ev("fit_streaming", 0, ""))]]
    /\ UNCHANGED <<cfg, fs>>

RECURSIVE CatRows(_)
CatRows(list) ==
    IF list = <<>> THEN 0 ELSE Head(list)[1] + CatRows(Tail(list))

EigenPlattArgs(label_list, hidden_list) ==
    [labels |-> <<CatRows(label_list)>>,
     hiddens |-> <<CatRows(hidden_list), hidden_list[1][2]>>]

EigenPlattScale(layer) ==
    LET J == job[layer] IN
    /\ J.pc = "eigen_platt_scale"
    /\ job' = [job EXCEPT ![layer] =
                  [J EXCEPT !.pc = "save_reporter",
                            !.reporter = <<[J.reporter[1] EXCEPT
                                 !.calib = Append(@, EigenPlattArgs(J.label_list, J.hidden_list))]>>,
                            !.log = Append(@, Ev("platt_scale", 0, ""))]]
    /\ UNCHANGED <<cfg, fs>>

DispatchUnknownAsEigen(layer) ==
    LET J == job[layer] IN
    /\ J.pc = "dispatch"
    /\ cfg.net.kind \notin {"ccs", "eigen"}
    /\ job' = [job EXCEPT ![layer] =
                  [J EXCEPT !.pc = "eigen_update",
                            !.fitter = <<NewEigenFitter(J.d, J.k, J.v)>>,
                            !.ds = 1,
                            !.log = Append(@, Ev("EigenFitter", 0, ""))]]
    /\ UNCHANGED <<cfg, fs>>

(***************************************************************************)
(* Lines 124-125: self.net is neither a CcsConfig nor an EigenFitterConfig.*)
(***************************************************************************)
DispatchUnknown(layer) ==
    LET J == job[layer] IN
    /\ J.pc = "dispatch"
    /\ cfg.net.kind \notin {"ccs", "eigen"}
    /\ job' = [job EXCEPT ![layer] = Raise(J, "ValueError: Unknown reporter config type")]
    /\ UNCHANGED <<cfg, fs>>

(***************************************************************************)
(* Lines 127-128: the reporter checkpoint.                                 *)
(***************************************************************************)
SaveReporter(layer) ==
    LET J == job[layer] IN
    /\ J.pc = "save_reporter"
    /\ fs' = fs \cup {ReporterPath(layer)}
    /\ job' = [job EXCEPT ![layer] =
                  [J EXCEPT !.pc = "train_supervised",
                            !.log = Append(@, Ev("torch.save", 0, ReporterPath(layer)))]]
    /\ UNCHANGED cfg

(***************************************************************************)
(* Lines 130-143: the supervised baseline.  train_supervised returns a     *)
(* list of models (here their indices) that is saved to lr_models; with    *)
(* supervised = "none" the list is empty and nothing is saved.  Then the   *)
(* evaluation buffers are created.                                         *)
(***************************************************************************)
LrModelLists == {[i \in 1..m |-> i - 1] : m \in 1..MaxLrModels}

TrainSupervised(layer) ==
    LET J == job[layer]
        J1 == [J EXCEPT !.pc = "eval_dataset", !.ds = 1,
                        !.out_logprobs = <<>>,
                        !.row_bufs = [t \in Tables |-> <<>>]]
    IN
    /\ J.pc = "train_supervised"
    /\ IF cfg.supervised # "none"
       THEN /\ \E models \in LrModelLists :
                  job' = [job EXCEPT ![layer] =
                     [J1 EXCEPT !.lr_models = models,
                                !.log = @ \o <<Ev("train_supervised", 0, ""),
                                               Ev("torch.save", 0, LrPath(layer))>>]]
            /\ fs' = fs \cup {LrPath(layer)}
       ELSE /\ job' = [job EXCEPT ![layer] = [J1 EXCEPT !.lr_models = <<>>]]
            /\ fs' = fs
    /\ UNCHANGED cfg

(***************************************************************************)
(* Lines 145-161: the head of one iteration of the loop over val_dict.     *)
(* With save_logprobs the dataset's entry of out_logprobs is created; the  *)
(* reporter is called on the val and on the train hiddens.                 *)
(***************************************************************************)
NewLogprobs(ds) ==
    [labels |-> Labels(ds, "val"), lm |-> <<>>, lr |-> <<>>, reporter |-> <<>>]

ReporterCredences(ds, split) == Credences("reporter", 0, ds, split)

EvalDataset(layer) ==
    LET J == job[layer] IN
    /\ J.pc = "eval_dataset"
    /\ J.ds <= Len(J.val_dict)
    /\ job' = [job EXCEPT ![layer] =
                  [J EXCEPT !.pc = "eval_mode",
                            !.mode = 1,
                            !.out_logprobs = IF cfg.save_logprobs
                                             THEN (J.ds :> NewLogprobs(J.ds)) @@ @
                                             ELSE @,
                            !.val_credences = <<ReporterCredences(J.ds, "val")>>,
                            !.train_credences = <<ReporterCredences(J.ds, "train")>>,
                            !.log = @ \o <<Ev("reporter", J.ds, "val"),
                                           Ev("reporter", J.ds, "train")>>]]
    /\ UNCHANGED <<cfg, fs>>

(***************************************************************************)
(* Lines 162-244: one iteration of the loop over the ensembling modes,     *)
(* with its inner loop over lr_models.  The rows of the reporter read the  *)
(* local variables val_credences and train_credences as they are when the  *)
(* iteration starts; the inner loop assigns the same two variables.        *)
(***************************************************************************)
ReporterRow(ds, layer, mode, metrics, train_loss) ==
    [dataset |-> ds, layer |-> layer, ensembling |-> mode,
     metrics |-> metrics, train_loss |-> train_loss]

LmRow(ds, layer, mode, metrics) ==
    [dataset |-> ds, layer |-> layer, ensembling |-> mode, metrics |-> metrics]

LrRow(ds, layer, mode, i, metrics) ==
    [dataset |-> ds, layer |-> layer, ensembling |-> mode, inlp_iter |-> i,
     metrics |-> metrics]

LmCredences(ds, split) == Credences("lm", 0, ds, split)
LrCredences(i, ds, split) == Credences("lr", i, ds, split)

EvalRowsSingleVariantOnce(J, layer, mode) ==
    LET ds == J.ds IN
    IF J.val_dict[ds].hiddens[2] = 1 /\ mode # "none"
    THEN <<>>
    ELSE <<ReporterRow(ds, layer, mode,
                       EvaluatePreds(Labels(ds, "val"), J.val_credences[1], mode),
                       J.train_loss)>>

EvalRows(J, layer, mode) ==
    LET ds == J.ds IN
    <<ReporterRow(ds, layer, mode,
                  EvaluatePreds(Labels(ds, "val"), J.val_credences[1], mode),
                  J.train_loss)>>

TrainEvalRows(J, layer, mode) ==
    LET ds == J.ds IN
    <<ReporterRow(ds, layer, mode,
                  EvaluatePreds(Labels(ds, "train"), J.train_credences[1], mode),
                  J.train_loss)>>

LmEvalRows(J, layer, mode) ==
    LET ds == J.ds IN
    IF J.val_dict[ds].lm_preds
    THEN <<LmRow(ds, layer, mode,
                 EvaluatePreds(Labels(ds, "val"), LmCredences(ds, "val"), mode))>>
    ELSE <<>>

TrainLmEvalRowsByValPreds(J, layer, mode) ==
    LET ds == J.ds IN
    IF J.val_dict[ds].lm_preds
    THEN <<LmRow(ds, layer, mode,
                 EvaluatePreds(Labels(ds, "train"), LmCredences(ds, "train"), mode))>>
    ELSE <<>>

TrainLmEvalRows(J, layer, mode) ==
    LET ds == J.ds IN
    IF J.train_dict[ds].lm_preds
    THEN <<LmRow(ds, layer, mode,
                 EvaluatePreds(Labels(ds, "train"), LmCredences(ds, "train"), mode))>>
    ELSE <<>>

LrEvalRowsOneBased(J, layer, mode, split) ==
    LET ds == J.ds IN
    [p \in 1..Len(J.lr_models) |->
        LrRow(ds, layer, mode, p,
              EvaluatePreds(Labels(ds, split), LrCredences(J.lr_models[p], ds, split), mode))]

LrEvalRows(J, layer, mode, split) ==
    LET ds == J.ds IN
    [p \in 1..Len(J.lr_models) |->
        LrRow(ds, layer, mode, J.lr_models[p],
              EvaluatePreds(Labels(ds, split), LrCredences(J.lr_models[p], ds, split), mode))]

NewRows(J, layer, mode) ==
    [t \in Tables |->
        CASE t = "eval" -> EvalRows(J, layer, mode)
          [] t = "train_eval" -> TrainEvalRows(J, layer, mode)
          [] t = "lm_eval" -> LmEvalRows(J, layer, mode)
          [] t = "train_lm_eval" -> TrainLmEvalRows(J, layer, mode)
          [] t = "lr_eval" -> LrEvalRows(J, layer, mode, "val")
          [] t = "train_lr_eval" -> LrEvalRows(J, layer, mode, "train")]

CredencesAfterLr(J, current, split) ==
    IF J.lr_models = <<>>
    THEN current
    ELSE <<LrCredences(J.lr_models[Len(J.lr_models)], J.ds, split)>>

LogprobsAfterMode(J, mode) ==
    LET ds == J.ds
        old == J.out_logprobs[ds]
    IN
    [old EXCEPT
        !.reporter = (mode :> GetLogprobs(J.val_credences[1], mode)) @@ @,
        !.lm = IF J.val_dict[ds].lm_preds
               THEN (mode :> GetLogprobs(LmCredences(ds, "val"), mode)) @@ @
               ELSE @,
        !.lr = (mode :> [p \in 1..Len(J.lr_models) |->
                           GetLogprobs(LrCredences(J.lr_models[p], ds, "val"), mode)]) @@ @]

EvalMode(layer) ==
    LET J == job[layer]
        mode == Modes[J.mode]
        new == NewRows(J, layer, mode)
        last == J.mode = Len(Modes)
    IN
    /\ J.pc = "eval_mode"
    /\ job' = [job EXCEPT ![layer] =
                  [J EXCEPT !.pc = IF last THEN "eval_dataset" ELSE "eval_mode",
                            !.mode = IF last THEN @ ELSE @ + 1,
                            !.ds = IF last THEN @ + 1 ELSE @,
                            !.row_bufs = [t \in Tables |-> @[t] \o new[t]],
                            !.out_logprobs = IF cfg.save_logprobs
                                             THEN [@ EXCEPT ![J.ds] = LogprobsAfterMode(J, mode)]
                                             ELSE @,
                            !.val_credences = CredencesAfterLr(J, @, "val"),
                            !.train_credences = CredencesAfterLr(J, @, "train")]]
    /\ UNCHANGED <<cfg, fs>>

(***************************************************************************)
(* Line 246: the tables that received rows, as data frames, and the        *)
(* log-probability dump.                                                   *)
(***************************************************************************)
ResultTables(row_bufs) ==
    [t \in {u \in Tables : row_bufs[u] # <<>>} |-> row_bufs[t]]

Return(layer) ==
    LET J == job[layer] IN
    /\ J.pc = "eval_dataset"
    /\ J.ds > Len(J.val_dict)
    /\ job' = [job EXCEPT ![layer] =
                  [J EXCEPT !.pc = "returned",
                            !.result = <<[tables |-> ResultTables(J.row_bufs),
                                          logprobs |-> J.out_logprobs]>>]]
    /\ UNCHANGED <<cfg, fs>>


(***************************************************************************)
(* Vocabulary of the properties.                                           *)
(***************************************************************************)
EarlyPcs == {"start", "prepare", "validate"}
BeforeFitPcs == EarlyPcs \cup {"create_models_dir", "dispatch"}

HiddenSizeError == "ValueError: All datasets must have the same hidden state size"
ClassCountError == "ValueError: All datasets must have the same number of classes"
UnpackError == "ValueError: not enough values to unpack"
UnknownConfigError == "ValueError: Unknown reporter config type"
SingleTaskError == "AssertionError: CCS only supports single-task training"

FitterOps == {"CcsReporter", "EigenFitter", "fit", "update", "fit_streaming", "platt_scale"}
WriteOps == {"mkdir", "save", "torch.save"}

At(J, ops) == {i \in DOMAIN J.log : J.log[i].op \in ops}

HiddenMismatch(train_dict) ==
    \E i \in DOMAIN train_dict : train_dict[i].hiddens[4] # train_dict[1].hiddens[4]

ClassMismatch(train_dict) ==
    \E i \in DOMAIN train_dict : train_dict[i].hiddens[3] # train_dict[1].hiddens[3]

NoRows(J) == \A t \in Tables : J.row_bufs[t] = <<>>

(***************************************************************************)
(* C1: once past validation, a job some of whose train tensors differs     *)
(* from the first in hidden size d or class count k, at any position, has  *)
(* raised one of the two validation ValueErrors, and no reporter or fitter *)
(* has been constructed, updated, fit or calibrated.                       *)
(***************************************************************************)
C1_MismatchRaises ==
    \A layer \in DOMAIN job :
        LET J == job[layer] IN
        (J.pc \notin EarlyPcs
            /\ (HiddenMismatch(J.train_dict) \/ ClassMismatch(J.train_dict)))
        => /\ J.pc = "raised"
           /\ J.error = IF HiddenMismatch(J.train_dict)
                        THEN HiddenSizeError ELSE ClassCountError
           /\ At(J, FitterOps) = {}
           /\ J.reporter = <<>>
           /\ J.fitter = <<>>

C1_Witness ==
    \E layer \in DOMAIN job :
        LET J == job[layer]
            m == Len(J.train_dict)
        IN
        /\ J.pc = "raised"
        /\ m = MaxDatasets
        /\ J.train_dict[m].hiddens[3] # J.train_dict[1].hiddens[3]
        /\ \A i \in 1..(m - 1) : J.train_dict[i].hiddens = J.train_dict[1].hiddens

(***************************************************************************)
(* C2: a job that raised a validation error has written nothing under      *)
(* out_dir (no directory, no cfg.yaml, no layer checkpoint), has appended  *)
(* no row and has no result or log-probability dump.                       *)
(***************************************************************************)
C2_ValidationWritesNothing ==
    \A layer \in DOMAIN job :
        LET J == job[layer] IN
        (J.pc = "raised" /\ J.error \in {HiddenSizeError, ClassCountError})
        => /\ fs = {}
           /\ At(J, WriteOps) = {}
           /\ NoRows(J)
           /\ J.out_logprobs = <<>>
           /\ J.result = <<>>

C2_Witness ==
    \E layer \in DOMAIN job :
        /\ job[layer].pc = "raised"
        /\ job[layer].error = HiddenSizeError
        /\ fs = {}

(***************************************************************************)
(* C3: with a contrastive config, a job with more than one train dataset   *)
(* ends in an error (the single-task assertion when the shapes agree)      *)
(* without a CcsReporter having been constructed, fit, calibrated or       *)
(* saved; with one dataset the reporter is fit once, on that dataset.      *)
(***************************************************************************)
C3_CcsSingleTask ==
    \A layer \in DOMAIN job :
        LET J == job[layer] IN
        (cfg.net.kind = "ccs" /\ J.pc \notin BeforeFitPcs)
        => /\ Len(J.train_dict) > 1
              => /\ J.pc = "raised"
                 /\ J.error \in {SingleTaskError, HiddenSizeError, ClassCountError}
                 /\ (~HiddenMismatch(J.train_dict) /\ ~ClassMismatch(J.train_dict))
                    => J.error = SingleTaskError
                 /\ J.reporter = <<>>
                 /\ At(J, FitterOps \cup {"torch.save"}) = {}
                 /\ ("reporters/layer_" \o ToString(layer) \o ".pt") \notin fs
           /\ (Len(J.train_dict) = 1 /\ J.pc # "raised")
              => /\ J.reporter # <<>>
                 /\ J.reporter[1].cls = "CcsReporter"
                 /\ J.reporter[1].in_features = J.train_dict[1].hiddens[4]
                 /\ J.reporter[1].num_variants = J.train_dict[1].hiddens[2]
                 /\ Cardinality(At(J, {"fit"})) <= 1
                 /\ \A i \in At(J, {"fit"}) : J.log[i].ds = 1
                 /\ J.pc # "ccs_fit" => Cardinality(At(J, {"fit"})) = 1

C3_Witness ==
    \E layer \in DOMAIN job :
        /\ cfg.net.kind = "ccs"
        /\ Len(job[layer].train_dict) > 1
        /\ job[layer].error = SingleTaskError

(***************************************************************************)
(* C4: with a config that is neither contrastive nor eigen the job never   *)
(* gets past the dispatch: it raises a ValueError (the unknown-config one  *)
(* when validation passed) and leaves no reporter checkpoint, no           *)
(* supervised artifact and no row; with a contrastive or an eigen config   *)
(* the branch of that config runs and the other one does not.              *)
(***************************************************************************)
CcsOps == {"CcsReporter", "fit"}
EigenOps == {"EigenFitter", "update", "fit_streaming"}

C4_UnknownConfigRaises ==
    \A layer \in DOMAIN job :
        LET J == job[layer] IN
        /\ cfg.net.kind \notin {"ccs", "eigen"}
           => /\ J.pc \in BeforeFitPcs \cup {"raised"}
              /\ J.pc = "raised"
                 => /\ J.error \in {UnknownConfigError, HiddenSizeError,
                                    ClassCountError, UnpackError}
                    /\ At(J, {"save"}) # {} <=> J.error = UnknownConfigError
              /\ At(J, FitterOps \cup {"torch.save", "train_supervised"}) = {}
              /\ fs \subseteq {"lr_models", "reporters", "reporters/cfg.yaml"}
              /\ NoRows(J)
              /\ J.result = <<>>
        /\ cfg.net.kind = "ccs"
           => /\ At(J, EigenOps) = {}
              /\ J.pc \notin BeforeFitPcs \cup {"raised"} => At(J, CcsOps) # {}
        /\ cfg.net.kind = "eigen"
           => /\ At(J, CcsOps) = {}
              /\ J.pc \notin BeforeFitPcs \cup {"raised"} => At(J, EigenOps) # {}

C4_Witness ==
    \E layer \in DOMAIN job :
        /\ cfg.net.kind = "other"
        /\ job[layer].pc = "raised"
        /\ job[layer].error = UnknownConfigError

(***************************************************************************)
(* C5: a job that returned gives, in the eval table and in the train_eval  *)
(* table, exactly three rows per dataset of val_dict: one per ensembling   *)
(* mode none, partial and full, each scored under its own mode, whatever   *)
(* the variant count.                                                      *)
(***************************************************************************)
C5_ThreeModesPerDataset ==
    \A layer \in DOMAIN job :
        LET J == job[layer] IN
        J.pc = "returned"
        => \A t \in {"eval", "train_eval"} :
              /\ t \in DOMAIN J.result[1].tables
              /\ LET rows == J.result[1].tables[t] IN
                 /\ Len(rows) = 3 * Len(J.val_dict)
                 /\ \A i \in DOMAIN rows : rows[i].metrics.ensembling = rows[i].ensembling
                 /\ \A ds \in DOMAIN J.val_dict :
                        \A m \in {"none", "partial", "full"} :
                            Cardinality({i \in DOMAIN rows :
                                rows[i].dataset = ds /\ rows[i].ensembling = m}) = 1

C5_Witness ==
    \E layer \in DOMAIN job :
        LET J == job[layer] IN
        /\ J.pc = "returned"
        /\ Len(J.val_dict) = MaxDatasets
        /\ \E ds \in DOMAIN J.val_dict : J.val_dict[ds].hiddens[2] = 1

(***************************************************************************)
(* C6: every row of eval is evaluate_preds of the reporter's credences on  *)
(* the dataset's val hiddens, every row of train_eval is evaluate_preds of *)
(* the reporter's credences on its train hiddens, and every reporter entry *)
(* of the log-probability dump is get_logprobs of the reporter's val       *)
(* credences: never the credences of a supervised baseline model.          *)
(***************************************************************************)
C6_ReporterRowsFromReporter ==
    \A layer \in DOMAIN job :
        LET J == job[layer] IN
        /\ \A i \in DOMAIN J.row_bufs["eval"] :
              LET row == J.row_bufs["eval"][i] IN
              /\ row.metrics.preds = [by |-> "reporter", idx |-> 0,
                                      ds |-> row.dataset, split |-> "val"]
              /\ row.metrics.labels = [ds |-> row.dataset, split |-> "val"]
        /\ \A i \in DOMAIN J.row_bufs["train_eval"] :
              LET row == J.row_bufs["train_eval"][i] IN
              /\ row.metrics.preds = [by |-> "reporter", idx |-> 0,
                                      ds |-> row.dataset, split |-> "train"]
              /\ row.metrics.labels = [ds |-> row.dataset, split |-> "train"]
        /\ \A ds \in DOMAIN J.out_logprobs :
              \A m \in DOMAIN J.out_logprobs[ds].reporter :
                  J.out_logprobs[ds].reporter[m].of =
                      [by |-> "reporter", idx |-> 0, ds |-> ds, split |-> "val"]

(***************************************************************************)
(* C7: platt_scale is called at most once in a job and exactly once in a   *)
(* job that returned, on either path; a fit or fit_streaming call precedes *)
(* it, and it precedes the save of the reporter checkpoint and every call  *)
(* of the reporter on hiddens.                                             *)
(***************************************************************************)
C7_PlattScaleOnce ==
    \A layer \in DOMAIN job :
        LET J == job[layer]
            P == At(J, {"platt_scale"})
            F == At(J, {"fit", "fit_streaming"})
            Saves == {i \in At(J, {"torch.save"}) :
                         J.log[i].arg = "reporters/layer_" \o ToString(layer) \o ".pt"}
        IN
        /\ Cardinality(P) <= 1
        /\ \A q \in P : \E f \in F : f < q
        /\ \A e \in Saves \cup At(J, {"reporter"}) : \E q \in P : q < e
        /\ J.pc \in {"save_reporter", "train_supervised", "eval_dataset",
                     "eval_mode", "returned"} => Cardinality(P) = 1
        /\ J.reporter # <<>>
           => /\ Len(J.reporter[1].calib) = Cardinality(P)
              /\ P # {} => J.reporter[1].fitted

C7_Witness ==
    \E layer \in DOMAIN job :
        /\ cfg.net.kind = "ccs"
        /\ job[layer].pc = "returned"
        /\ Len(job[layer].reporter[1].calib) = 1

(***************************************************************************)
(* C8: on the eigen path update is called once for each dataset of         *)
(* train_dict, in order, none skipped or repeated; fit_streaming is called *)
(* once, after the update of every dataset, and no update follows it.      *)
(***************************************************************************)
C8_EigenUpdatesThenFit ==
    \A layer \in DOMAIN job :
        LET J == job[layer]
            U == At(J, {"update"})
            S == At(J, {"fit_streaming"})
        IN
        cfg.net.kind = "eigen"
        => /\ Cardinality(S) <= 1
           /\ \A i \in U : J.log[i].ds \in DOMAIN J.train_dict
           /\ \A i, j \in U : J.log[i].ds = J.log[j].ds => i = j
           /\ \A i, j \in U : i < j => J.log[i].ds < J.log[j].ds
           /\ \A f \in S :
                 /\ \A ds \in DOMAIN J.train_dict : \E i \in U : J.log[i].ds = ds
                 /\ \A i \in U : i < f
           /\ J.pc \notin BeforeFitPcs \cup {"raised", "eigen_update"} => S # {}
           /\ J.fitter # <<>>
              => /\ Len(J.fitter[1].updates) = Cardinality(U)
                 /\ J.fitter[1].fit <=> S # {}

C8_Witness ==
    \E layer \in DOMAIN job :
        LET J == job[layer] IN
        /\ cfg.net.kind = "eigen"
        /\ Len(J.train_dict) = MaxDatasets
        /\ J.train_dict[1].hiddens[2] # J.train_dict[MaxDatasets].hiddens[2]
        /\ J.fitter # <<>>
        /\ J.fitter[1].fit
        /\ Len(J.fitter[1].updates) = MaxDatasets

(***************************************************************************)
(* C9: the reporter is saved at most once, and exactly once in a job that  *)
(* returned, to reporters/layer_{layer}.pt: after platt_scale and after    *)
(* every call that fits the reporter, before every call of the reporter on *)
(* hiddens; once it is saved the reporter object is not changed again; the *)
(* checkpoint paths of distinct layers differ, and a job writes no other   *)
(* layer's checkpoint.                                                     *)
(***************************************************************************)
CheckpointOf(layer) == "reporters/layer_" \o ToString(layer) \o ".pt"

ReporterSaves(J, layer) ==
    {i \in At(J, {"torch.save"}) : J.log[i].arg = CheckpointOf(layer)}

C9_SavedOnceThenReadOnly ==
    /\ [](\A layer \in DOMAIN job :
            LET J == job[layer]
                Saves == ReporterSaves(J, layer)
            IN
            /\ Cardinality(Saves) <= 1
            /\ J.pc = "returned" => Cardinality(Saves) = 1
            /\ CheckpointOf(layer) \in fs <=> Saves # {}
            /\ \A s \in Saves :
                  /\ \E q \in At(J, {"platt_scale"}) : q < s
                  /\ \A i \in At(J, FitterOps) : i < s
            /\ \A e \in At(J, {"reporter"}) : \E s \in Saves : s < e
            /\ \A other \in Layers \ {layer} :
                  /\ CheckpointOf(other) # CheckpointOf(layer)
                  /\ other \notin DOMAIN job => CheckpointOf(other) \notin fs)
    /\ [][\A layer \in DOMAIN job :
            ReporterSaves(job[layer], layer) # {}
                => job'[layer].reporter = job[layer].reporter]_vars

C9_Witness ==
    \E layer \in DOMAIN job :
        /\ layer = MaxLayer
        /\ job[layer].pc = "returned"
        /\ CheckpointOf(layer) \in fs

Next ==
    \/ \E layer \in DOMAIN job : MakeReproducible(layer) /\ UNCHANGED unit
    \/ \E layer \in DOMAIN job : PrepareData(layer) /\ UNCHANGED unit
    \/ \E layer \in DOMAIN job : Validate(layer) /\ UNCHANGED unit
    \/ \E layer \in DOMAIN job : CreateModelsDir(layer) /\ UNCHANGED unit
    \/ \E layer \in DOMAIN job : DispatchCcs(layer) /\ UNCHANGED unit
    \/ \E layer \in DOMAIN job : CcsFit(layer) /\ UNCHANGED unit
    \/ \E layer \in DOMAIN job : CcsPlattScale(layer) /\ UNCHANGED unit
    \/ \E layer \in DOMAIN job : DispatchEigen(layer) /\ UNCHANGED unit
    \/ \E layer \in DOMAIN job : EigenUpdate(layer) /\ UNCHANGED unit
    \/ \E layer \in DOMAIN job : EigenFitStreaming(layer) /\ UNCHANGED unit
    \/ \E layer \in DOMAIN job : EigenPlattScale(layer) /\ UNCHANGED unit
    \/ \E layer \in DOMAIN job : DispatchUnknown(layer) /\ UNCHANGED unit
    \/ \E layer \in DOMAIN job : SaveReporter(layer) /\ UNCHANGED unit
    \/ \E layer \in DOMAIN job : TrainSupervised(layer) /\ UNCHANGED unit
    \/ \E layer \in DOMAIN job : EvalDataset(layer) /\ UNCHANGED unit
    \/ \E layer \in DOMAIN job : EvalMode(layer) /\ UNCHANGED unit
    \/ \E layer \in DOMAIN job : Return(layer) /\ UNCHANGED unit

Spec == Init /\ [][Next]_vars

(***************************************************************************)
(* A run: one apply_to_layer job per layer of the model, every job of the  *)
(* run receiving the run's datasets from prepare_data and sharing out_dir. *)
(* The jobs are dispatched to separate worker processes, so their steps    *)
(* interleave freely.                                                      *)
(***************************************************************************)
RunInputs == VariantCases

RunOf(data) == [kind |-> "run", data |-> data]

InitRun ==
    /\ \E data \in RunInputs : unit = RunOf(data)
    /\ cfg \in Elicit
    /\ job = [layer \in Layers |-> InitJob]
    /\ fs = {}

PrepareRunData(layer) == PrepareDataFrom(layer, {unit.data})

NextRun ==
    \/ \E layer \in DOMAIN job : MakeReproducible(layer) /\ UNCHANGED unit
    \/ \E layer \in DOMAIN job : PrepareRunData(layer) /\ UNCHANGED unit
    \/ \E layer \in DOMAIN job : Validate(layer) /\ UNCHANGED unit
    \/ \E layer \in DOMAIN job : CreateModelsDir(layer) /\ UNCHANGED unit
    \/ \E layer \in DOMAIN job : DispatchCcs(layer) /\ UNCHANGED unit
    \/ \E layer \in DOMAIN job : CcsFit(layer) /\ UNCHANGED unit
    \/ \E layer \in DOMAIN job : CcsPlattScale(layer) /\ UNCHANGED unit
    \/ \E layer \in DOMAIN job : DispatchEigen(layer) /\ UNCHANGED unit
    \/ \E layer \in DOMAIN job : EigenUpdate(layer) /\ UNCHANGED unit
    \/ \E layer \in DOMAIN job : EigenFitStreaming(layer) /\ UNCHANGED unit
    \/ \E layer \in DOMAIN job : EigenPlattScale(layer) /\ UNCHANGED unit
    \/ \E layer \in DOMAIN job : DispatchUnknown(layer) /\ UNCHANGED unit
    \/ \E layer \in DOMAIN job : SaveReporter(layer) /\ UNCHANGED unit
    \/ \E layer \in DOMAIN job : TrainSupervised(layer) /\ UNCHANGED unit
    \/ \E layer \in DOMAIN job : EvalDataset(layer) /\ UNCHANGED unit
    \/ \E layer \in DOMAIN job : EvalMode(layer) /\ UNCHANGED unit
    \/ \E layer \in DOMAIN job : Return(layer) /\ UNCHANGED unit

SpecRun == InitRun /\ [][NextRun]_vars

(***************************************************************************)
(* The writes of files (not directories) a job has issued, in order.       *)
(***************************************************************************)
FileWriteOps == {"save", "torch.save"}

FileWrites(J) == SelectSeq(J.log, LAMBDA ev : ev.op \in FileWriteOps)

CfgWrites(J) == SelectSeq(J.log, LAMBDA ev : ev.op = "save" /\ ev.arg = CfgPath)

(***************************************************************************)
(* C11: over a run of any number of layer jobs, the reporter configuration *)
(* reporters/cfg.yaml is written exactly once, not once per layer: at no   *)
(* point of the run have the jobs together written it more than once, and  *)
(* a run in which a job got as far as saving its reporter has written it.  *)
(***************************************************************************)
C11_CfgWrittenOncePerRun ==
    LET writers == {layer \in DOMAIN job : Len(CfgWrites(job[layer])) > 0} IN
    /\ \A layer \in DOMAIN job : Len(CfgWrites(job[layer])) <= 1
    /\ Cardinality(writers) <= 1
    /\ (\E layer \in DOMAIN job : ReporterSaves(job[layer], layer) # {})
           => Cardinality(writers) = 1

(***************************************************************************)
(* C12: in every interleaving of the layer jobs of a run, no two jobs      *)
(* write the same file path: every file a job writes has its layer in its  *)
(* name.                                                                   *)
(***************************************************************************)
C12_JobsWriteDistinctPaths ==
    \A a, b \in DOMAIN job :
        a # b =>
            \A i \in DOMAIN FileWrites(job[a]), j \in DOMAIN FileWrites(job[b]) :
                FileWrites(job[a])[i].arg # FileWrites(job[b])[j].arg

(***************************************************************************)
(* The value evaluate_preds computes from a metrics term, for credences    *)
(* with v variants: the mean over a single variant is that variant in      *)
(* probability space and in logit space alike, so with v = 1 the mode      *)
(* does not enter the value; with more variants it does.                   *)
(***************************************************************************)
MetricsValue(metrics, v) ==
    [metrics EXCEPT !.ensembling = IF v = 1 THEN "none" ELSE @]

VariantCountOf(J, ds) == J.val_dict[ds].hiddens[2]

RowSansEnsembling(J, row) ==
    [row EXCEPT !.ensembling = "none",
                !.metrics = MetricsValue(@, VariantCountOf(J, row.dataset))]

LrTables == {"lr_eval", "train_lr_eval"}

(***************************************************************************)
(* C13: for a single-variant dataset (v = 1) the three modes give the same *)
(* credences and metrics, so the rows a table holds for the dataset (and,  *)
(* in the lr tables, for one supervised model) differ only in their        *)
(* ensembling field.                                                       *)
(***************************************************************************)
C13_SingleVariantRowsAgree ==
    \A layer \in DOMAIN job :
        LET J == job[layer] IN
        \A t \in Tables :
            \A i, j \in DOMAIN J.row_bufs[t] :
                LET r1 == J.row_bufs[t][i]
                    r2 == J.row_bufs[t][j]
                IN
                (/\ r1.dataset = r2.dataset
                 /\ VariantCountOf(J, r1.dataset) = 1
                 /\ t \in LrTables => r1.inlp_iter = r2.inlp_iter)
                    => RowSansEnsembling(J, r1) = RowSansEnsembling(J, r2)

AfterEigenLoopPcs ==
    {"eigen_platt_scale", "save_reporter", "train_supervised",
     "eval_dataset", "eval_mode", "returned"}

(***************************************************************************)
(* C15: on the eigen path datasets that agree in d and k are accepted      *)
(* whatever their variant counts: the job does not raise, update is called *)
(* for each of them and fit_streaming is reached, and the calibration      *)
(* labels of each dataset are expanded with that dataset's own v: n * v    *)
(* * k entries, one per row of its flattened hiddens.                      *)
(***************************************************************************)
C15_OwnVariantCountPerDataset ==
    \A layer \in DOMAIN job :
        LET J == job[layer]
            shape(i) == J.train_dict[i].hiddens
        IN
        (/\ cfg.net.kind = "eigen"
         /\ J.train_dict # <<>>
         /\ ~HiddenMismatch(J.train_dict)
         /\ ~ClassMismatch(J.train_dict))
        => /\ J.pc # "raised"
           /\ Len(J.label_list) = Len(J.hidden_list)
           /\ \A i \in DOMAIN J.label_list :
                 /\ J.label_list[i] = <<shape(i)[1] * shape(i)[2] * shape(i)[3]>>
                 /\ J.label_list[i][1] = J.hidden_list[i][1]
           /\ J.pc \in AfterEigenLoopPcs
              => /\ Len(J.label_list) = Len(J.train_dict)
                 /\ Len(J.fitter[1].updates) = Len(J.train_dict)
                 /\ J.fitter[1].fit

C15_Witness ==
    \E layer \in DOMAIN job :
        LET J == job[layer] IN
        /\ cfg.net.kind = "eigen"
        /\ J.pc = "returned"
        /\ Len(J.train_dict) = MaxDatasets
        /\ J.train_dict[1].hiddens[2] = 1
        /\ J.train_dict[MaxDatasets].hiddens[2] = MaxVariants
        /\ J.label_list[MaxDatasets] = <<2 * MaxVariants * 2>>

RowsOf(J, t, ds, mode) ==
    {i \in DOMAIN J.row_bufs[t] :
        J.row_bufs[t][i].dataset = ds /\ J.row_bufs[t][i].ensembling = mode}

CountIf(present) == IF present THEN 1 ELSE 0

(***************************************************************************)
(* C16: for each dataset and mode a row is appended to lm_eval iff the     *)
(* dataset's val bundle has lm_preds and to train_lm_eval iff its train    *)
(* bundle has lm_preds; a dataset without them contributes no row to       *)
(* these tables and raises no error, and its reporter rows are emitted     *)
(* regardless.                                                             *)
(***************************************************************************)
C16_LmRowsIffLmPreds ==
    \A layer \in DOMAIN job :
        LET J == job[layer] IN
        /\ J.pc = "raised" => NoRows(J)
        /\ \A ds \in DOMAIN J.val_dict, m \in DOMAIN Modes :
              LET n(t) == Cardinality(RowsOf(J, t, ds, Modes[m])) IN
              /\ n("lm_eval") <= CountIf(J.val_dict[ds].lm_preds)
              /\ n("train_lm_eval") <= CountIf(J.train_dict[ds].lm_preds)
              /\ n("lm_eval") <= n("eval")
              /\ n("train_lm_eval") <= n("train_eval")
              /\ J.pc = "returned"
                 => /\ n("lm_eval") = CountIf(J.val_dict[ds].lm_preds)
                    /\ n("train_lm_eval") = CountIf(J.train_dict[ds].lm_preds)
                    /\ n("eval") = 1
                    /\ n("train_eval") = 1

C16_Witness ==
    \E layer \in DOMAIN job :
        LET J == job[layer] IN
        /\ J.pc = "returned"
        /\ Len(J.val_dict) = MaxDatasets
        /\ J.val_dict[1].lm_preds /\ ~J.train_dict[1].lm_preds
        /\ ~J.val_dict[MaxDatasets].lm_preds /\ ~J.train_dict[MaxDatasets].lm_preds
        /\ Len(J.row_bufs["lm_eval"]) = Len(Modes)
        /\ J.row_bufs["train_lm_eval"] = <<>>
        /\ Len(J.row_bufs["eval"]) = MaxDatasets * Len(Modes)

LrSaves(J, layer) ==
    {i \in At(J, {"torch.save"}) : J.log[i].arg = "lr_models/layer_" \o ToString(layer) \o ".pt"}

LrRowsOf(J, t, ds, mode, i) ==
    {p \in RowsOf(J, t, ds, mode) : J.row_bufs[t][p].inlp_iter = i}

AfterSupervisedPcs == {"eval_dataset", "eval_mode", "returned"}

(***************************************************************************)
(* C17: with supervised = "none" the supervised trainer is not invoked, no *)
(* lr_models/layer_{layer}.pt is written and the returned tables have no   *)
(* lr_eval or train_lr_eval rows; otherwise the trained models are saved   *)
(* once to lr_models/layer_{layer}.pt and, for every dataset and mode,     *)
(* lr_eval and train_lr_eval hold exactly one row per model i, with        *)
(* inlp_iter = i running over 0..len(lr_models)-1.                         *)
(***************************************************************************)
C17_SupervisedOptional ==
    \A layer \in DOMAIN job :
        LET J == job[layer]
            saves == LrSaves(J, layer)
            calls == At(J, {"train_supervised"})
        IN
        IF cfg.supervised = "none"
        THEN /\ calls = {}
             /\ saves = {}
             /\ LrPath(layer) \notin fs
             /\ J.lr_models = <<>>
             /\ \A t \in LrTables : J.row_bufs[t] = <<>>
             /\ J.pc = "returned" => DOMAIN J.result[1].tables \cap LrTables = {}
        ELSE /\ Cardinality(saves) <= 1
             /\ Cardinality(calls) <= 1
             /\ \A s \in saves : \E c \in calls : c < s
             /\ J.pc \in AfterSupervisedPcs
                => /\ Cardinality(saves) = 1
                   /\ Cardinality(calls) = 1
                   /\ LrPath(layer) \in fs
                   /\ J.lr_models # <<>>
             /\ J.pc = "returned"
                => \A t \in LrTables, ds \in DOMAIN J.val_dict, m \in DOMAIN Modes :
                      /\ Cardinality(RowsOf(J, t, ds, Modes[m])) = Len(J.lr_models)
                      /\ \A i \in 0..(Len(J.lr_models) - 1) :
                            Cardinality(LrRowsOf(J, t, ds, Modes[m], i)) = 1
                      /\ J.result[1].tables[t] = J.row_bufs[t]

C17_Witness ==
    \E layer \in DOMAIN job :
        LET J == job[layer] IN
        /\ cfg.supervised = "inlp"
        /\ J.pc = "returned"
        /\ Len(J.lr_models) = MaxLrModels
        /\ Len(J.val_dict) = MaxDatasets
        /\ Len(J.result[1].tables["lr_eval"]) = MaxDatasets * Len(Modes) * MaxLrModels
        /\ Cardinality(LrRowsOf(J, "train_lr_eval", MaxDatasets, "full", MaxLrModels - 1)) = 1

(***************************************************************************)
(* Extract (src/elk/extraction/extraction.py): the construction of an      *)
(* extraction configuration.  The dataclass fields `layers' and the        *)
(* init-only layer_stride are the inputs of __post_init__;                 *)
(* num_hidden_layers is what the configuration of the model named by       *)
(* `model' holds, read only if AutoConfig.from_pretrained is called.       *)
(***************************************************************************)
MaxStride == 3
MaxHiddenLayers == 5
MaxGivenLayers == 2

Strides == 0..MaxStride
HiddenLayerCounts == 0..MaxHiddenLayers
GivenLayers == SeqsUpTo(Layers, MaxGivenLayers)

LayersAndStrideError ==
    "ValueError: Cannot use both --layers and --layer-stride. Please use only one."

NewExtract(layers, layer_stride, num_hidden_layers) ==
    [kind |-> "extract", pc |-> "post_init", error |-> "",
     layers |-> layers, given |-> layers, layer_stride |-> layer_stride,
     num_hidden_layers |-> num_hidden_layers, looked_up |-> FALSE]

InitExtract ==
    /\ \E layers \in GivenLayers, s \in Strides, n \in HiddenLayerCounts :
          unit = NewExtract(layers, s, n)
    /\ cfg = <<>>
    /\ job = <<>>
    /\ fs = {}

(* Python's range(start, stop, step) for a positive step, as a tuple.      *)
RECURSIVE Range(_, _, _)
Range(start, stop, step) ==
    IF start >= stop THEN <<>> ELSE <<start>> \o Range(start + step, stop, step)

(* Line 74: `self.layers and layer_stride > 1'.                            *)
UsesBothAnyStride(layers, layer_stride) == layers # <<>> /\ layer_stride >= 1

UsesBoth(layers, layer_stride) == layers # <<>> /\ layer_stride > 1

(* Lines 74-77.                                                            *)
PostInitRaise ==
    /\ unit.kind = "extract"
    /\ unit.pc = "post_init"
    /\ UsesBoth(unit.layers, unit.layer_stride)
    /\ unit' = [unit EXCEPT !.pc = "raised", !.error = LayersAndStrideError]
    /\ UNCHANGED <<cfg, job, fs>>

(* Lines 78-87: the stride is expanded from the model's configuration.     *)
StrideLayers(num_hidden_layers, layer_stride) ==
    <<0>> \o Range(1, num_hidden_layers + 1, layer_stride)

PostInitStride ==
    /\ unit.kind = "extract"
    /\ unit.pc = "post_init"
    /\ ~UsesBoth(unit.layers, unit.layer_stride)
    /\ unit.layer_stride > 1
    /\ unit' = [unit EXCEPT !.pc = "done", !.looked_up = TRUE,
                            !.layers = StrideLayers(unit.num_hidden_layers,
                                                    unit.layer_stride)]
    /\ UNCHANGED <<cfg, job, fs>>

(* Neither branch: __post_init__ returns without a change.                 *)
PostInitKeep ==
    /\ unit.kind = "extract"
    /\ unit.pc = "post_init"
    /\ ~UsesBoth(unit.layers, unit.layer_stride)
    /\ ~(unit.layer_stride > 1)
    /\ unit' = [unit EXCEPT !.pc = "done"]
    /\ UNCHANGED <<cfg, job, fs>>

NextExtract ==
    \/ PostInitRaise
    \/ PostInitStride
    \/ PostInitKeep

SpecExtract == InitExtract /\ [][NextExtract]_vars

(***************************************************************************)
(* C18: constructing an Extract with a non-empty `layers' and              *)
(* layer_stride > 1 raises the ValueError; with layer_stride = 1 the       *)
(* given layers, empty or not, are left unchanged, nothing is raised and   *)
(* no model configuration is looked up.                                    *)
(***************************************************************************)
C18_LayersAndStrideExclusive ==
    unit.pc # "post_init"
    => /\ (unit.given # <<>> /\ unit.layer_stride > 1)
          => /\ unit.pc = "raised"
             /\ unit.error = LayersAndStrideError
             /\ ~unit.looked_up
       /\ unit.layer_stride = 1
          => /\ unit.pc = "done"
             /\ unit.layers = unit.given
             /\ ~unit.looked_up
       /\ unit.pc = "raised" => (unit.given # <<>> /\ unit.layer_stride > 1)

C18_Witness ==
    /\ unit.pc = "raised"
    /\ Len(unit.given) = MaxGivenLayers
    /\ unit.layer_stride = 2
    /\ unit.error = LayersAndStrideError

(***************************************************************************)
(* C19: with `layers' left empty and a stride s > 1, the layers after      *)
(* construction are the tuple of range(0, num_layers, s), for every number *)
(* of hidden layers.                                                       *)
(***************************************************************************)
C19_StrideIsRangeFromZero ==
    (unit.pc = "done" /\ unit.given = <<>> /\ unit.layer_stride > 1)
    => unit.layers = Range(0, unit.num_hidden_layers, unit.layer_stride)

(***************************************************************************)
(* The calibration arguments of apply_to_layer (lines 93-123) on concrete  *)
(* tensors.  A train dataset is its example count n, variant count v and   *)
(* label vector (classes 0..k-1); its hiddens tensor of shape (n, v, k, d) *)
(* holds at (e, j, c) one row of d numbers, written as the tuple           *)
(* <<dataset, e, j, c>> that names it.  Tensors are nested sequences.      *)
(***************************************************************************)
ExampleCounts == {1, 2}

CalibDatasets(k) ==
    UNION {[n : {n}, v : VariantCounts, labels : [1..n -> 0..(k - 1)]] : n \in ExampleCounts}

CalibInputs(k) == SeqsUpTo(CalibDatasets(k), MaxDatasets) \ {<<>>}

HiddensOf(i, data, k) ==
    [e \in 1..data.n |-> [j \in 1..data.v |-> [c \in 1..k |-> <<i, e, j, c - 1>>]]]

NewCalib(net, k, train) ==
    [kind |-> "calib", pc |-> "dispatch", net |-> net, k |-> k, train |-> train,
     ds |-> 1, hidden_list |-> <<>>, label_list |-> <<>>, platt |-> <<>>]

(* The CCS branch is entered with exactly one dataset (line 91).           *)
InitCalib ==
    /\ \E k \in ClassCounts, net \in {"ccs", "eigen"} :
          \E train \in CalibInputs(k) :
              /\ net = "ccs" => Len(train) = 1
              /\ unit = NewCalib(net, k, train)
    /\ cfg = <<>>
    /\ job = <<>>
    /\ fs = {}

(* torch.cat, and the merging of the two leading axes of a tensor.         *)
RECURSIVE Cat(_)
Cat(seqs) == IF seqs = <<>> THEN <<>> ELSE Head(seqs) \o Cat(Tail(seqs))

(* rearrange(hiddens, "n v k d -> (n v k) d")                              *)
RearrangeRows(hiddens) == Cat(Cat(hiddens))

(* repeat(labels, "n -> (v n)", v=v)                                       *)
RepeatVariantMajor(labels, v) == Cat([j \in 1..v |-> labels])

(* repeat(labels, "n -> (n v)", v=v)                                       *)
RepeatPerVariant(labels, v) == Cat([e \in DOMAIN labels |-> [j \in 1..v |-> labels[e]]])

(* repeat(one_hot, "n k -> n v k", v=v)                                    *)
RepeatVariants(rows, v) == [e \in DOMAIN rows |-> [j \in 1..v |-> rows[e]]]

(* to_one_hot(labels, k): one row of k entries per label.                  *)
ToOneHot(labels, k) ==
    [p \in DOMAIN labels |-> [c \in 1..k |-> IF labels[p] = c - 1 THEN 1 ELSE 0]]

(* Tensor.flatten() of a matrix.                                           *)
Flatten(rows) == Cat(rows)

(* Lines 95-96.                                                            *)
CalibCcs ==
    LET first == unit.train[1] IN
    /\ unit.kind = "calib"
    /\ unit.pc = "dispatch"
    /\ unit.net = "ccs"
    /\ unit' = [unit EXCEPT
                   !.pc = "done",
                   !.platt = <<[labels |-> RepeatVariants(ToOneHot(first.labels, unit.k),
                                                          first.v),
                                hiddens |-> HiddensOf(1, first, unit.k)]>>]
    /\ UNCHANGED <<cfg, job, fs>>

(* Line 103.                                                               *)
CalibEigen ==
    /\ unit.kind = "calib"
    /\ unit.pc = "dispatch"
    /\ unit.net = "eigen"
    /\ unit' = [unit EXCEPT !.pc = "loop", !.hidden_list = <<>>, !.label_list = <<>>]
    /\ UNCHANGED <<cfg, job, fs>>

(* Lines 104-116: one iteration of the loop over train_dict.               *)
CalibAppend ==
    LET data == unit.train[unit.ds]
        v == data.v
    IN
    /\ unit.kind = "calib"
    /\ unit.pc = "loop"
    /\ unit.ds <= Len(unit.train)
    /\ unit' = [unit EXCEPT
                   !.ds = @ + 1,
                   !.hidden_list = Append(@, RearrangeRows(HiddensOf(unit.ds, data, unit.k))),
                   !.label_list = Append(@, Flatten(ToOneHot(RepeatPerVariant(data.labels, v),
                                                             unit.k)))]
    /\ UNCHANGED <<cfg, job, fs>>

(* Lines 120-123.                                                          *)
CalibCat ==
    /\ unit.kind = "calib"
    /\ unit.pc = "loop"
    /\ unit.ds > Len(unit.train)
    /\ unit' = [unit EXCEPT
                   !.pc = "done",
                   !.platt = <<[labels |-> Cat(unit.label_list),
                                hiddens |-> Cat(unit.hidden_list)]>>]
    /\ UNCHANGED <<cfg, job, fs>>

NextCalib ==
    \/ CalibCcs
    \/ CalibEigen
    \/ CalibAppend
    \/ CalibCat

SpecCalib == InitCalib /\ [][NextCalib]_vars

(* Rows of hiddens dataset i contributes (n * v * k), and the rows of the  *)
(* datasets before it.                                                     *)
RowCount(data, k) == data.n * data.v * k

RECURSIVE RowsBefore(_, _, _)
RowsBefore(train, k, i) ==
    IF i = 1 THEN 0 ELSE RowsBefore(train, k, i - 1) + RowCount(train[i - 1], k)

Hot(b) == IF b THEN 1 ELSE 0

(***************************************************************************)
(* C20: the calibration labels are aligned element for element with the    *)
(* calibration hiddens.  Eigen path: the concatenated labels and hidden    *)
(* rows both have length sum_i n_i*v_i*k, and at the flattened position of *)
(* (dataset i, example e, variant j, choice c) stand that hidden row and   *)
(* the label 1 if labels_i[e] = c, else 0.  CCS path: the labels have      *)
(* shape (n, v, k) with entry (e, j, c) equal to 1 iff labels[e] = c, for  *)
(* every variant j.                                                        *)
(***************************************************************************)
C20_CalibrationLabelsAligned ==
    unit.pc = "done"
    => LET k == unit.k
           train == unit.train
           L == unit.platt[1].labels
           H == unit.platt[1].hiddens
       IN
       IF unit.net = "eigen"
       THEN LET total == RowsBefore(train, k, Len(train) + 1) IN
            /\ Len(L) = total
            /\ Len(H) = total
            /\ \A i \in DOMAIN train :
                  \A e \in 1..train[i].n, j \in 1..train[i].v, c \in 0..(k - 1) :
                      LET p == RowsBefore(train, k, i)
                                 + ((e - 1) * train[i].v + (j - 1)) * k + c + 1
                      IN
                      /\ H[p] = <<i, e, j, c>>
                      /\ L[p] = Hot(train[i].labels[e] = c)
       ELSE /\ Len(L) = train[1].n
            /\ \A e \in 1..train[1].n :
                  /\ Len(L[e]) = train[1].v
                  /\ \A j \in 1..train[1].v :
                        /\ Len(L[e][j]) = k
                        /\ \A c \in 0..(k - 1) :
                              /\ L[e][j][c + 1] = Hot(train[1].labels[e] = c)
                              /\ H[e][j][c + 1] = <<1, e, j, c>>

C20_Witness ==
    /\ unit.pc = "done"
    /\ unit.net = "eigen"
    /\ Len(unit.train) = MaxDatasets
    /\ unit.train[1].v = 1
    /\ unit.train[MaxDatasets].v = MaxVariants
    /\ unit.train[MaxDatasets].n = 2
    /\ unit.train[MaxDatasets].labels = <<0, unit.k - 1>>
    /\ Len(unit.platt[1].labels) = RowCount(unit.train[1], unit.k)
                                     * (MaxDatasets - 1) + 2 * MaxVariants * unit.k

(***************************************************************************)
(* The streaming accumulator of the eigen fitter (EigenFitter.update): a   *)
(* running count, mean and sum of squared deviations, updated in place by  *)
(* the incremental mean/covariance formulas, for hidden rows of one        *)
(* number each (d = 1) after the variant axis is flattened into the        *)
(* example axis.  Numbers are exact fractions <<numerator, denominator>>   *)
(* in lowest terms.                                                        *)
(***************************************************************************)
MaxRows == 3

RowValues == {0, 1, 2}

RowData == UNION {[1..n -> RowValues] : n \in 1..MaxRows}

Abs(x) == IF x < 0 THEN -x ELSE x

RECURSIVE GCD(_, _)
GCD(a, b) == IF b = 0 THEN a ELSE GCD(b, a % b)

Frac(p, q) == LET g == GCD(Abs(p), q) IN <<p \div g, q \div g>>
FracOf(n) == <<n, 1>>
FracAdd(a, b) == Frac(a[1] * b[2] + b[1] * a[2], a[2] * b[2])
FracSub(a, b) == Frac(a[1] * b[2] - b[1] * a[2], a[2] * b[2])
FracMul(a, b) == Frac(a[1] * b[1], a[2] * b[2])
FracDiv(a, n) == Frac(a[1], a[2] * n)

RECURSIVE SumOf(_)
SumOf(xs) == IF xs = <<>> THEN 0 ELSE Head(xs) + SumOf(Tail(xs))

BatchMean(xs) == Frac(SumOf(xs), Len(xs))

RECURSIVE SquaredDeviations(_, _)
SquaredDeviations(xs, mean) ==
    IF xs = <<>>
    THEN FracOf(0)
    ELSE LET dev == FracSub(FracOf(Head(xs)), mean) IN
         FracAdd(FracMul(dev, dev), SquaredDeviations(Tail(xs), mean))

EmptyStats == [n |-> 0, mean |-> FracOf(0), m2 |-> FracOf(0)]

AccumulatorUpdateWithoutShift(stats, xs) ==
    LET m == Len(xs)
        n == stats.n + m
        mean == BatchMean(xs)
        delta == FracSub(mean, stats.mean)
    IN
    [n |-> n,
     mean |-> FracAdd(stats.mean, FracDiv(FracMul(delta, FracOf(m)), n)),
     m2 |-> FracAdd(stats.m2, SquaredDeviations(xs, mean))]

AccumulatorUpdate(stats, xs) ==
    LET m == Len(xs)
        n == stats.n + m
        mean == BatchMean(xs)
        delta == FracSub(mean, stats.mean)
    IN
    [n |-> n,
     mean |-> FracAdd(stats.mean, FracDiv(FracMul(delta, FracOf(m)), n)),
     m2 |-> FracAdd(FracAdd(stats.m2, SquaredDeviations(xs, mean)),
                    FracDiv(FracMul(FracMul(delta, delta), FracOf(stats.n * m)), n))]

(* The rows of `data' at the positions of `rows', in the order of data.    *)
RECURSIVE RowsAt(_, _, _)
RowsAt(data, rows, i) ==
    IF i > Len(data)
    THEN <<>>
    ELSE (IF i \in rows THEN <<data[i]>> ELSE <<>>) \o RowsAt(data, rows, i + 1)

NewAccumulator(data) ==
    [kind |-> "accumulator", data |-> data, left |-> DOMAIN data,
     stats |-> EmptyStats, updates |-> 0]

InitAccumulator ==
    /\ \E data \in RowData : unit = NewAccumulator(data)
    /\ cfg = <<>>
    /\ job = <<>>
    /\ fs = {}

(* One call of update, on a batch of the rows not yet seen.                *)
UpdateBatch ==
    /\ unit.kind = "accumulator"
    /\ \E batch \in (SUBSET unit.left) \ {{}} :
          unit' = [unit EXCEPT
                      !.left = @ \ batch,
                      !.stats = AccumulatorUpdate(@, RowsAt(unit.data, batch, 1)),
                      !.updates = @ + 1]
    /\ UNCHANGED <<cfg, job, fs>>

NextAccumulator == UpdateBatch

SpecAccumulator == InitAccumulator /\ [][NextAccumulator]_vars

(***************************************************************************)
(* C14: for every partition of a dataset into batches and every order of   *)
(* the update calls, the statistics after the calls equal those of a       *)
(* single update over the rows seen so far, and in the end over the full   *)
(* data.                                                                   *)
(***************************************************************************)
C14_UpdateOrderFree ==
    LET seen == DOMAIN unit.data \ unit.left IN
    /\ seen # {}
       => unit.stats = AccumulatorUpdate(EmptyStats, RowsAt(unit.data, seen, 1))
    /\ unit.left = {} => unit.stats = AccumulatorUpdate(EmptyStats, unit.data)

C14_Witness ==
    /\ unit.left = {}
    /\ unit.updates = MaxRows
    /\ unit.data[1] # unit.data[MaxRows]
    /\ unit.stats.n = MaxRows
    /\ unit.stats.m2 # FracOf(0)

(***************************************************************************)
(* A layer job whose val bundles need not have the shape of the train      *)
(* bundles: prepare_data returns the two splits separately (lines 72-73).  *)
(* The reporter is built for the hidden size d of the train tensors, so    *)
(* calling it on val hiddens of another hidden size (line 160) fails in    *)
(* its matrix product.                                                     *)
(***************************************************************************)
ValDataset(train_shape, val_shape) ==
    [train |-> Bundle(train_shape, FALSE), val |-> Bundle(val_shape, FALSE)]

ValDatasets ==
    {ValDataset(<<2, 1, 2, 4>>, <<2, 1, k, d>>) : k \in ClassCounts, d \in HiddenSizes}

ValInputs == SeqsUpTo(ValDatasets, MaxDatasets)

InitVal ==
    /\ unit = NoUnit
    /\ cfg \in Elicit
    /\ \E layer \in Layers : job = (layer :> InitJob)
    /\ fs = {}

PrepareValData(layer) == PrepareDataFrom(layer, ValInputs)

ValHiddenFits(J) ==
    J.ds \in DOMAIN J.val_dict => J.val_dict[J.ds].hiddens[4] = J.d

ShapeError == "RuntimeError: mat1 and mat2 shapes cannot be multiplied"

EvalDatasetShapeError(layer) ==
    LET J == job[layer] IN
    /\ J.pc = "eval_dataset"
    /\ J.ds <= Len(J.val_dict)
    /\ ~ValHiddenFits(J)
    /\ job' = [job EXCEPT ![layer] =
                  Raise([J EXCEPT !.log = Append(@, Ev("reporter", J.ds, "val"))],
                        ShapeError)]
    /\ UNCHANGED <<cfg, fs>>

NextVal ==
    \/ \E layer \in DOMAIN job : MakeReproducible(layer) /\ UNCHANGED unit
    \/ \E layer \in DOMAIN job : PrepareValData(layer) /\ UNCHANGED unit
    \/ \E layer \in DOMAIN job : Validate(layer) /\ UNCHANGED unit
    \/ \E layer \in DOMAIN job : CreateModelsDir(layer) /\ UNCHANGED unit
    \/ \E layer \in DOMAIN job : DispatchCcs(layer) /\ UNCHANGED unit
    \/ \E layer \in DOMAIN job : CcsFit(layer) /\ UNCHANGED unit
    \/ \E layer \in DOMAIN job : CcsPlattScale(layer) /\ UNCHANGED unit
    \/ \E layer \in DOMAIN job : DispatchEigen(layer) /\ UNCHANGED unit
    \/ \E layer \in DOMAIN job : EigenUpdate(layer) /\ UNCHANGED unit
    \/ \E layer \in DOMAIN job : EigenFitStreaming(layer) /\ UNCHANGED unit
    \/ \E layer \in DOMAIN job : EigenPlattScale(layer) /\ UNCHANGED unit
    \/ \E layer \in DOMAIN job : DispatchUnknown(layer) /\ UNCHANGED unit
    \/ \E layer \in DOMAIN job : SaveReporter(layer) /\ UNCHANGED unit
    \/ \E layer \in DOMAIN job : TrainSupervised(layer) /\ UNCHANGED unit
    \/ \E layer \in DOMAIN job : ValHiddenFits(job[layer]) /\ EvalDataset(layer) /\ UNCHANGED unit
    \/ \E layer \in DOMAIN job : EvalDatasetShapeError(layer) /\ UNCHANGED unit
    \/ \E layer \in DOMAIN job : EvalMode(layer) /\ UNCHANGED unit
    \/ \E layer \in DOMAIN job : Return(layer) /\ UNCHANGED unit

SpecVal == InitVal /\ [][NextVal]_vars

ValMismatch(J) ==
    \E i \in DOMAIN J.val_dict :
        \/ J.val_dict[i].hiddens[4] # J.train_dict[1].hiddens[4]
        \/ J.val_dict[i].hiddens[3] # J.train_dict[1].hiddens[3]

(***************************************************************************)
(* C21: the validation of hidden size and class count covers the val       *)
(* bundles too: once past validation, a job one of whose val tensors       *)
(* differs in d or k from the train tensors has raised a validation        *)
(* error, and no reporter or fitter was built, fit or written.             *)
(***************************************************************************)
C21_ValBundlesValidated ==
    \A layer \in DOMAIN job :
        LET J == job[layer] IN
        (J.pc \notin EarlyPcs /\ J.train_dict # <<>> /\ ValMismatch(J))
        => /\ J.pc = "raised"
           /\ J.error \in {HiddenSizeError, ClassCountError}
           /\ At(J, FitterOps) = {}
           /\ At(J, WriteOps) = {}
           /\ J.reporter = <<>>

(***************************************************************************)
(* extract_hiddens (src/elk/extraction/extraction.py, lines 172-179): each *)
(* of the world_size processes computes, from its rank, how many examples  *)
(* of the split it takes.  Python integers do not overflow.                *)
(***************************************************************************)
MaxWorldSize == 3
MaxGlobalExamples == 7

WorldSizes == 1..MaxWorldSize
GlobalExamples == 0..MaxGlobalExamples

NewSplit(world_size, global_max_examples) ==
    [kind |-> "split", world_size |-> world_size,
     global_max_examples |-> global_max_examples,
     max_examples |-> <<>>]

InitSplit ==
    /\ \E w \in WorldSizes, g \in GlobalExamples : unit = NewSplit(w, g)
    /\ cfg = <<>>
    /\ job = <<>>
    /\ fs = {}

MaxExamplesWithoutRemainder(rank, world_size, global_max_examples) ==
    global_max_examples \div world_size

(* Lines 174-177.                                                          *)
MaxExamples(rank, world_size, global_max_examples) ==
    LET max_examples == global_max_examples \div world_size IN
    IF rank = world_size - 1
    THEN max_examples + (global_max_examples % world_size)
    ELSE max_examples

(* The process of one rank reaches line 179 with its limit.                *)
LimitExamples ==
    /\ unit.kind = "split"
    /\ \E rank \in (0..(unit.world_size - 1)) \ DOMAIN unit.max_examples :
          unit' = [unit EXCEPT
                      !.max_examples =
                          (rank :> MaxExamples(rank, unit.world_size,
                                               unit.global_max_examples)) @@ @]
    /\ UNCHANGED <<cfg, job, fs>>

NextSplit == LimitExamples

SpecSplit == InitSplit /\ [][NextSplit]_vars

RECURSIVE SumOver(_, _)
SumOver(f, S) ==
    IF S = {} THEN 0
    ELSE LET x == CHOOSE y \in S : TRUE IN f[x] + SumOver(f, S \ {x})

(***************************************************************************)
(* C22: the global limit G is split over the W ranks without loss: every   *)
(* rank below W-1 is limited to floor(G / W) examples, rank W-1 to         *)
(* floor(G / W) + (G mod W), and the limits of ranks 0..W-1 sum to G; a    *)
(* single rank gets G.                                                     *)
(***************************************************************************)
C22_SplitWithoutLoss ==
    LET W == unit.world_size
        G == unit.global_max_examples
        m == unit.max_examples
    IN
    /\ \A r \in DOMAIN m :
          IF r < W - 1
          THEN m[r] * W <= G /\ G < (m[r] + 1) * W
          ELSE \E q \in 0..G :
                  /\ q * W <= G /\ G < (q + 1) * W
                  /\ m[r] = q + (G - q * W)
    /\ DOMAIN m = 0..(W - 1) => SumOver(m, DOMAIN m) = G
    /\ (W = 1 /\ 0 \in DOMAIN m) => m[0] = G

C22_Witness ==
    /\ unit.world_size = MaxWorldSize
    /\ unit.global_max_examples = MaxGlobalExamples
    /\ DOMAIN unit.max_examples = 0..(MaxWorldSize - 1)
    /\ unit.max_examples[MaxWorldSize - 1] > unit.max_examples[0]

(***************************************************************************)
(* normalize (src/elk/training/preprocessing.py, lines 9-54) on tensors of *)
(* one-number rows, as exact fractions.  The in-place operators -= and *=  *)
(* change the caller's tensors.  A scale that needs a norm is kept as the  *)
(* term it is computed from, in `scaled'.                                  *)
(***************************************************************************)
Methods == {"legacy", "elementwise", "meanonly", "zscore"}

NotSupportedError == "NotImplementedError: Scale method is not supported."

Tensor(rows) == [i \in DOMAIN rows |-> FracOf(rows[i])]

NewNormalize(train, val, method) ==
    [kind |-> "normalize", pc |-> "call", method |-> method, error |-> "",
     train_in |-> Tensor(train), val_in |-> Tensor(val),
     train_hiddens |-> Tensor(train), val_hiddens |-> Tensor(val),
     scaled |-> <<>>]

InitNormalize ==
    /\ \E train \in RowData, val \in RowData, method \in Methods :
          unit = NewNormalize(train, val, method)
    /\ cfg = <<>>
    /\ job = <<>>
    /\ fs = {}

RECURSIVE FracSum(_)
FracSum(xs) == IF xs = <<>> THEN FracOf(0) ELSE FracAdd(Head(xs), FracSum(Tail(xs)))

(* tensor.mean(dim=0)                                                      *)
MeanOf(xs) == FracDiv(FracSum(xs), Len(xs))

(* tensor -= means                                                         *)
Centered(xs, means) == [i \in DOMAIN xs |-> FracSub(xs[i], means)]

(* Lines 29-38 and 54.                                                     *)
NormalizeLegacy ==
    LET master == unit.train_hiddens \o unit.val_hiddens
        means == MeanOf(master)
        norms == [i \in DOMAIN master |-> <<Abs(master[i][1]), master[i][2]>>]
    IN
    /\ unit.kind = "normalize"
    /\ unit.pc = "call"
    /\ unit.method = "legacy"
    /\ unit' = [unit EXCEPT
                   !.pc = "returned",
                   !.train_hiddens = Centered(@, means),
                   !.val_hiddens = Centered(@, means),
                   !.scaled = <<[by |-> "sqrt(d) / mean norm", of |-> MeanOf(norms)]>>]
    /\ UNCHANGED <<cfg, job, fs>>

(* Lines 40-47 and 51-54.                                                  *)
NormalizeByTrain ==
    LET means == MeanOf(unit.train_hiddens)
        centered == Centered(unit.train_hiddens, means)
        squares == [i \in DOMAIN centered |-> FracMul(centered[i], centered[i])]
    IN
    /\ unit.kind = "normalize"
    /\ unit.pc = "call"
    /\ unit.method \in {"elementwise", "meanonly"}
    /\ unit' = [unit EXCEPT
                   !.pc = "returned",
                   !.train_hiddens = centered,
                   !.val_hiddens = Centered(@, means),
                   !.scaled = IF unit.method = "elementwise"
                              THEN <<[by |-> "1 / sqrt", of |-> FracSum(squares)]>>
                              ELSE <<>>]
    /\ UNCHANGED <<cfg, job, fs>>

(* Lines 40-42 and 48-49: the tensors are centered before the method is    *)
(* looked at.                                                              *)
NormalizeUnsupported ==
    LET means == MeanOf(unit.train_hiddens) IN
    /\ unit.kind = "normalize"
    /\ unit.pc = "call"
    /\ unit.method \notin {"legacy", "elementwise", "meanonly"}
    /\ unit' = [unit EXCEPT
                   !.pc = "raised",
                   !.error = NotSupportedError,
                   !.train_hiddens = Centered(@, means),
                   !.val_hiddens = Centered(@, means)]
    /\ UNCHANGED <<cfg, job, fs>>

NextNormalize ==
    \/ NormalizeLegacy
    \/ NormalizeByTrain
    \/ NormalizeUnsupported

SpecNormalize == InitNormalize /\ [][NextNormalize]_vars

(***************************************************************************)
(* C23: for a method other than legacy, elementwise and meanonly,          *)
(* normalize raises NotImplementedError, and on that path the caller's     *)
(* train_hiddens and val_hiddens are exactly as they were passed in.       *)
(***************************************************************************)
C23_UnsupportedMethodNoSideEffect ==
    (unit.pc # "call" /\ unit.method \notin {"legacy", "elementwise", "meanonly"})
    => /\ unit.pc = "raised"
       /\ unit.error = NotSupportedError
       /\ unit.train_hiddens = unit.train_in
       /\ unit.val_hiddens = unit.val_in
       /\ unit.scaled = <<>>
====
